---- MODULE Spec2Model ----
(***************************************************************************)
(* A model of the request/response correlation engine of lsp-client        *)
(* (src/src/client.rs): LanguageServer { peer, pending, next_id } behind   *)
(* one Mutex, any number of producer threads calling send_request and      *)
(* send_notification, the language server (the peer) on the other side of  *)
(* the child's stdin/stdout pipes, and the single reader thread started by *)
(* start_language_server.                                                  *)
(***************************************************************************)
EXTENDS Integers, Sequences, FiniteSets, TLC

\* ------------------------------------------------------------------ bounds
NumProducers == 2     \* producer threads sharing clones of the LanguageServerRef
MaxOps == 2           \* send_request / send_notification calls in one session
MaxPeerMsgs == 2      \* messages the peer writes to its stdout in one session
MaxFrames == 2        \* frames the peer writes when the stream is modelled byte by byte
StdinCapacity == 1    \* chunks the pipe to the child's stdin holds unread
StdoutCapacity == 1   \* chunks the pipe from the child's stdout holds unread

Producers == 1..NumProducers
READER == 0           \* the thread spawned in start_language_server
NOBODY == -1          \* the mutex is not held

\* ------------------------------------------------------ JSON values of "id"
\* serde_json::Value of the "id" field: absent, null, a number, a string.
Missing == [t |-> "missing", n |-> 0, s |-> <<>>]
Null == [t |-> "null", n |-> 0, s |-> <<>>]
Num(k) == [t |-> "num", n |-> k, s |-> <<>>]
Str(chars) == [t |-> "str", n |-> 0, s |-> chars]

Digits == <<"0", "1", "2", "3", "4", "5", "6", "7", "8", "9">>

\* value of one decimal digit character, -1 for any other character
DigitVal(c) ==
    IF \E i \in 1..Len(Digits) : Digits[i] = c
    THEN (CHOOSE i \in 1..Len(Digits) : Digits[i] = c) - 1
    ELSE -1

\* str::parse::<u64>: a non-empty run of decimal digits (one leading "+" is
\* accepted); -1 stands for Err(ParseIntError).
RECURSIVE ParseDigits(_, _)
ParseDigits(chars, acc) ==
    IF chars = <<>> THEN acc
    ELSE IF DigitVal(Head(chars)) < 0 THEN -1
    ELSE ParseDigits(Tail(chars), acc * 10 + DigitVal(Head(chars)))

ParseU64(chars) ==
    LET body == IF chars # <<>> /\ Head(chars) = "+" THEN Tail(chars) ELSE chars
    IN  IF body = <<>> THEN -1 ELSE ParseDigits(body, 0)

\* u64 -> decimal string, as serde_json / format! print a number
RECURSIVE ToDecimal(_)
ToDecimal(k) ==
    IF k < 10 THEN <<Digits[k + 1]>>
    ELSE Append(ToDecimal(k \div 10), Digits[(k % 10) + 1])

\* number_from_id: the usize an id normalises to, or -1 where the function
\* panics (expect on None, as_u64 on a negative number, parse on a string that
\* is no decimal, any other JSON type).
\* (variant: a negative number is taken by its magnitude instead of refused)
number_from_id_abs(id) ==
    IF id.t = "num" THEN (IF id.n >= 0 THEN id.n ELSE 0 - id.n)
    ELSE IF id.t = "str" THEN ParseU64(id.s)
    ELSE -1

\* (variant: only a JSON number is taken as an id)
number_from_id_numOnly(id) ==
    IF id.t = "num" /\ id.n >= 0 THEN id.n ELSE -1

number_from_id(id) ==
    IF id.t = "num" THEN (IF id.n >= 0 THEN id.n ELSE -1)
    ELSE IF id.t = "str" THEN ParseU64(id.s)
    ELSE -1

\* ids the peer may put in a message: every shape number_from_id tells apart
IdValues ==
    {Missing, Null, Num(-1), Str(<<"x">>)}
        \cup {Num(k) : k \in 1..MaxOps}
        \cup {Str(ToDecimal(k)) : k \in 1..MaxOps}

\* what the peer may write: the four JSON-RPC shapes
PeerMessages ==
    [kind : {"success", "error"}, id : IdValues]
        \cup [kind : {"notification"}, id : {Missing}]
        \cup [kind : {"request"}, id : {Num(k) : k \in 1..MaxOps}]

NoMsg == [kind |-> "none", id |-> Missing]
NoFrame == [id |-> Missing, method |-> <<0, 0>>]

\* prepare_lsp_json: "Content-Length: N\r\n\r\n" followed by the N body bytes;
\* write_all may hand the pipe the string in more than one write.
prepare_lsp_json(frame) ==
    <<[part |-> "hdr", frame |-> frame], [part |-> "body", frame |-> frame]>>

\* ------------------------------------------------------------------- state
VARIABLES
    next_id,      \* LanguageServer.next_id
    pending,      \* LanguageServer.pending: id -> callback
    holder,       \* the thread holding the Mutex, or NOBODY
    poisoned,     \* the Mutex's poison flag
    wire,         \* everything written to the child's stdin (LanguageServer.peer)
    stdout,       \* number of messages the peer has written and the reader has not read
    peerSent,     \* number of messages the peer has written
    ppc,          \* each producer's position
    pframe,       \* the frame a producer is sending
    ppart,        \* the next part of pframe to write
    pseq,         \* operations each producer has started, in program order
    nOps,         \* send_request / send_notification calls started
    rpc,          \* the reader thread's position
    rmsg,         \* the message the reader is handling
    rfail,        \* why the reader thread stopped
    issued,       \* history: the (id, callback) pairs registered, in order
    returned,     \* history: ids whose send_request has returned
    calls,        \* history: completion callbacks invoked, in order
    dropped,      \* history: a server request carrying an id in flight was discarded
    source,       \* the bytes of the child's stdout the reader has not consumed
    closed,       \* the child has closed its stdout
    written,      \* history: the frames the peer wrote to source, in order
    fpc,          \* read_message: "start" at its call, "headers", "body"
    content_length, \* read_message's local content_length, -1 for None
    buffer,       \* read_message's local buffer, the line read last
    parsed,       \* history: the header line parse_header saw last, and its result
    results,      \* history: what read_message returned, Empty left out
    lastEmpty,    \* history: the last read_message returned Empty
    peerRead,     \* number of chunks of wire the peer has read from its stdin
    peerTodo,     \* the chunks of the message the peer is writing, not yet written
    stdoutPipe    \* the chunks in the pipe from the child's stdout, unread

vars == <<next_id, pending, holder, poisoned, wire, stdout, peerSent,
          ppc, pframe, ppart, pseq, nOps, rpc, rmsg, rfail,
          issued, returned, calls, dropped,
          source, closed, written, fpc, content_length, buffer, parsed,
          results, lastEmpty,
          peerRead, peerTodo, stdoutPipe>>

engine == <<next_id, pending>>
mutex == <<holder, poisoned>>
producers == <<ppc, pframe, ppart, pseq, nOps>>
reader == <<rpc, rmsg, rfail>>
peerSide == <<stdout, peerSent>>
history == <<issued, returned, calls, dropped>>
framing == <<source, closed, written, fpc, content_length, buffer, parsed,
             results, lastEmpty>>
pipes == <<peerRead, peerTodo, stdoutPipe>>

\* LanguageServerRef::new: next_id 1, empty pending table, fresh Mutex
Init ==
    /\ next_id = 1
    /\ pending = << >>
    /\ holder = NOBODY
    /\ poisoned = FALSE
    /\ wire = <<>>
    /\ stdout = 0
    /\ peerSent = 0
    /\ ppc = [p \in Producers |-> "idle"]
    /\ pframe = [p \in Producers |-> NoFrame]
    /\ ppart = [p \in Producers |-> 1]
    /\ pseq = [p \in Producers |-> 0]
    /\ nOps = 0
    /\ rpc = "read"
    /\ rmsg = NoMsg
    /\ rfail = "none"
    /\ issued = <<>>
    /\ returned = {}
    /\ calls = <<>>
    /\ dropped = FALSE
    /\ source = <<>>
    /\ closed = FALSE
    /\ written = <<>>
    /\ fpc = "start"
    /\ content_length = -1
    /\ buffer = <<>>
    /\ parsed = [line |-> <<>>, result |-> [ok |-> TRUE, kind |-> "none", len |-> 0, msg |-> <<>>]]
    /\ results = <<>>
    /\ lastEmpty = FALSE
    /\ peerRead = 0
    /\ peerTodo = <<>>
    /\ stdoutPipe = <<>>

\* ------------------------------------------------------ the engine's pieces
\* (variant: no mutual exclusion)
CanLock_always(h) == TRUE

\* Mutex::lock returns once no thread holds the mutex
CanLock(h) == h = NOBODY

\* (variants: the increment forgotten; an increment of two)
NextId_stuck(n) == n

NextId_skip(n) == n + 2

\* self.next_id += 1
NextId(n) == n + 1

\* (variant: send_request does not register the callback)
InsertPending_drop(pend, id, cb) == pend

\* self.pending.insert(self.next_id, completion)
InsertPending(pend, id, cb) ==
    [k \in DOMAIN pend \cup {id} |-> IF k = id THEN cb ELSE pend[k]]

\* (variant: the entry is looked up and left in the table)
RemovePending_keep(pend, id) == pend

\* self.pending.remove(&id): the table without the entry
RemovePending(pend, id) ==
    [k \in DOMAIN pend \ {id} |-> pend[k]]

\* (variant: the callback of the oldest entry, whatever the id)
LookupCallback_oldest(pend, id) ==
    pend[CHOOSE k \in DOMAIN pend : \A j \in DOMAIN pend : k <= j]

\* self.pending.remove(&id): the callback it returns
LookupCallback(pend, id) == pend[id]

\* json!({"jsonrpc": "2.0", "id": self.next_id, "method": .., "params": ..})
RequestFrame(id, p, k) == [id |-> Num(id), method |-> <<p, k>>]

\* (variant: a notification is given the id a request would get)
NotificationFrame_withId(p, k) == [id |-> Num(next_id), method |-> <<p, k>>]

\* json!({"jsonrpc": "2.0", "method": .., "params": ..})
NotificationFrame(p, k) == [id |-> Missing, method |-> <<p, k>>]

\* (variant: the bytes are put in front of what was written before)
WriteBytes_front(w, chunk) == <<chunk>> \o w

\* self.peer.write_all(..): the bytes reach the pipe behind what is there
WriteBytes(w, chunk) == Append(w, chunk)

\* ---------------------------------------------------------------- producers
\* LanguageServerRef::send_request up to the call of send_rpc: self.0.lock()
\* .unwrap() (a poisoned mutex panics the caller), then the request is built,
\* its callback inserted and next_id incremented.  The completion is named by
\* the call that passed it: the caller and the number of that call.
send_request(p) ==
    /\ ppc[p] = "idle"
    /\ nOps < MaxOps
    /\ CanLock(holder)
    /\ nOps' = nOps + 1
    /\ pseq' = [pseq EXCEPT ![p] = @ + 1]
    /\ IF poisoned
       THEN /\ ppc' = [ppc EXCEPT ![p] = "panicked"]
            /\ UNCHANGED <<engine, mutex, pframe, ppart, issued>>
       ELSE LET cb == [by |-> p, seq |-> pseq[p] + 1]
            IN  /\ holder' = p
                /\ pending' = InsertPending(pending, next_id, cb)
                /\ next_id' = NextId(next_id)
                /\ issued' = Append(issued, [id |-> next_id, cb |-> cb])
                /\ pframe' = [pframe EXCEPT ![p] = RequestFrame(next_id, p, pseq[p] + 1)]
                /\ ppart' = [ppart EXCEPT ![p] = 1]
                /\ ppc' = [ppc EXCEPT ![p] = "write"]
                /\ UNCHANGED poisoned
    /\ UNCHANGED <<wire, peerSide, reader, returned, calls, dropped>>
    /\ UNCHANGED <<framing, pipes>>

\* LanguageServerRef::send_notification up to the call of send_rpc
send_notification(p) ==
    /\ ppc[p] = "idle"
    /\ nOps < MaxOps
    /\ CanLock(holder)
    /\ nOps' = nOps + 1
    /\ pseq' = [pseq EXCEPT ![p] = @ + 1]
    /\ IF poisoned
       THEN /\ ppc' = [ppc EXCEPT ![p] = "panicked"]
            /\ UNCHANGED <<mutex, pframe, ppart>>
       ELSE /\ holder' = p
            /\ pframe' = [pframe EXCEPT ![p] = NotificationFrame(p, pseq[p] + 1)]
            /\ ppart' = [ppart EXCEPT ![p] = 1]
            /\ ppc' = [ppc EXCEPT ![p] = "write"]
            /\ UNCHANGED poisoned
    /\ UNCHANGED <<engine, wire, peerSide, reader, history>>
    /\ UNCHANGED <<framing, pipes>>

\* send_rpc -> LanguageServer::write: one write of write_all, inside the
\* critical section; after the last one, flush
write(p) ==
    /\ ppc[p] = "write"
    /\ wire' = WriteBytes(wire, prepare_lsp_json(pframe[p])[ppart[p]])
    /\ IF ppart[p] < Len(prepare_lsp_json(pframe[p]))
       THEN /\ ppart' = [ppart EXCEPT ![p] = @ + 1]
            /\ UNCHANGED ppc
       ELSE /\ ppc' = [ppc EXCEPT ![p] = "unlock"]
            /\ UNCHANGED ppart
    /\ UNCHANGED <<engine, mutex, peerSide, pframe, pseq, nOps, reader, history>>
    /\ UNCHANGED <<framing, pipes>>

\* (variant: the io::Error is swallowed, the call goes on to its return)
write_fail_silent(p) ==
    /\ ppc[p] = "write"
    /\ ppc' = [ppc EXCEPT ![p] = "unlock"]
    /\ UNCHANGED <<engine, mutex, wire, peerSide, pframe, ppart, pseq, nOps, reader, history>>
    /\ UNCHANGED <<framing, pipes>>

\* (variant: the panic releases the mutex without poisoning it)
write_fail_unpoisoned(p) ==
    /\ ppc[p] = "write"
    /\ ppc' = [ppc EXCEPT ![p] = "panicked"]
    /\ holder' = NOBODY
    /\ UNCHANGED <<engine, poisoned, wire, peerSide, pframe, ppart, pseq, nOps, reader, history>>
    /\ UNCHANGED <<framing, pipes>>

\* LanguageServer::write: write_all or flush returns an io::Error (the child
\* closed its stdin, or any other failure of the pipe) and expect panics; the
\* guard is dropped while unwinding, which poisons the mutex
write_fail(p) ==
    /\ ppc[p] = "write"
    /\ ppc' = [ppc EXCEPT ![p] = "panicked"]
    /\ holder' = NOBODY
    /\ poisoned' = TRUE
    /\ UNCHANGED <<engine, wire, peerSide, pframe, ppart, pseq, nOps, reader, history>>
    /\ UNCHANGED <<framing, pipes>>

\* the end of send_request / send_notification: the guard `inner` is dropped
\* as the function returns to its caller
send_return(p) ==
    /\ ppc[p] = "unlock"
    /\ holder' = NOBODY
    /\ ppc' = [ppc EXCEPT ![p] = "idle"]
    /\ returned' = IF pframe[p].id = Missing THEN returned
                   ELSE returned \cup {pframe[p].id.n}
    /\ pframe' = [pframe EXCEPT ![p] = NoFrame]
    /\ ppart' = [ppart EXCEPT ![p] = 1]
    /\ UNCHANGED <<engine, poisoned, wire, peerSide, pseq, nOps, reader, issued, calls, dropped>>
    /\ UNCHANGED <<framing, pipes>>

\* ------------------------------------------------------------------- reader
\* (variant: whatever carries an id is taken for a response)
IsResponse_anyWithId(m) == m.id # Missing

\* JsonRPC::Success and JsonRPC::Error, the arms of handle_msg that lock
IsResponse(m) == m.kind \in {"success", "error"}

\* the reader loop: parsing::read_message returns the next message of the
\* child's stdout and handle_msg classifies it.  What the peer wrote is seen
\* by nobody before this call returns it, so the message is drawn here.
\* A JsonRPC::Success or JsonRPC::Error goes on to lock the mutex.
read_message(m) ==
    /\ rpc = "read"
    /\ stdout > 0
    /\ IsResponse(m)
    /\ rmsg' = m
    /\ stdout' = stdout - 1
    /\ rpc' = "handle"
    /\ UNCHANGED <<engine, mutex, wire, peerSent, producers, rfail, history>>
    /\ UNCHANGED <<framing, pipes>>

\* the same, for a JsonRPC::Request or a JsonRPC::Notification: handle_msg
\* logs it and returns, and the loop reads on
read_message_discard(m) ==
    /\ rpc = "read"
    /\ stdout > 0
    /\ ~IsResponse(m)
    /\ stdout' = stdout - 1
    /\ dropped' = (dropped \/ (m.kind = "request" /\ m.id.n \in DOMAIN pending))
    /\ UNCHANGED <<engine, mutex, wire, peerSent, producers, reader,
                   issued, returned, calls>>
    /\ UNCHANGED <<framing, pipes>>

\* a panic on the reader thread: the thread unwinds and ends, dropping what
\* its closure owns, the BufReader over the child's stdout included
reader_panics(why) ==
    /\ rpc' = "panicked"
    /\ rfail' = why
    /\ stdout' = 0
    /\ UNCHANGED rmsg

\* handle_msg: JsonRPC::parse(..).expect(..).  jsonrpc_lite is not part of the
\* repository; a response object without an id may be rejected by it, and then
\* the reader thread panics before it takes the lock.
handle_msg_parse_panic ==
    /\ rpc = "handle"
    /\ \/ IsResponse(rmsg) /\ rmsg.id = Missing
       \/ rmsg.kind = "other"
    /\ reader_panics("parse")
    /\ UNCHANGED <<engine, mutex, wire, peerSent, producers, history>>
    /\ UNCHANGED <<framing, pipes>>

\* LanguageServer::handle_response, the entry found: pending.remove(&id),
\* callback.call(Ok(result)); the caller's guard is alive while the callback runs
handle_response(id, result) ==
    /\ calls' = Append(calls, [cb |-> LookupCallback(pending, id),
                               outcome |-> "Ok", val |-> result])
    /\ pending' = RemovePending(pending, id)
    /\ holder' = READER
    /\ rpc' = "callback"
    /\ UNCHANGED <<next_id, poisoned, rfail, rmsg, stdout>>

\* (variant: an error response is fatal once its callback has been called)
handle_error_fatal(id, error) ==
    /\ calls' = Append(calls, [cb |-> LookupCallback(pending, id),
                               outcome |-> "Err", val |-> error])
    /\ pending' = RemovePending(pending, id)
    /\ reader_panics("error")
    /\ poisoned' = TRUE
    /\ UNCHANGED <<next_id, holder>>

\* LanguageServer::handle_error, the entry found: pending.remove(&id),
\* callback.call(Err(error))
handle_error(id, error) ==
    /\ calls' = Append(calls, [cb |-> LookupCallback(pending, id),
                               outcome |-> "Err", val |-> error])
    /\ pending' = RemovePending(pending, id)
    /\ holder' = READER
    /\ rpc' = "callback"
    /\ UNCHANGED <<next_id, poisoned, rfail, rmsg, stdout>>

\* handle_msg, JsonRPC::Success and JsonRPC::Error: self.0.lock().unwrap(),
\* number_from_id, then handle_response / handle_error, all of it with the
\* guard `inner` alive.  A panic (poisoned mutex, id that is no usize, id not
\* in the table) ends the reader thread; one raised under the guard poisons
\* the mutex.
handle_msg_response ==
    /\ rpc = "handle"
    /\ IsResponse(rmsg)
    /\ CanLock(holder)
    /\ LET id == number_from_id(rmsg.id)
       IN  IF poisoned
           THEN /\ reader_panics("poisoned")
                /\ UNCHANGED <<engine, mutex, calls>>
           ELSE IF id < 0
           THEN /\ reader_panics("bad_id")
                /\ poisoned' = TRUE
                /\ UNCHANGED <<engine, holder, calls>>
           ELSE IF id \notin DOMAIN pending
           THEN /\ reader_panics("unknown_id")
                /\ poisoned' = TRUE
                /\ UNCHANGED <<engine, holder, calls>>
           ELSE IF rmsg.kind = "success"
           THEN handle_response(id, rmsg)
           ELSE handle_error(id, rmsg)
    /\ UNCHANGED <<wire, peerSent, producers, issued, returned, dropped>>
    /\ UNCHANGED <<framing, pipes>>

\* What a completion does is its caller's code.  One that does not touch the
\* engine returns; handle_msg's match arm ends and the guard is dropped
callback_return ==
    /\ rpc = "callback"
    /\ holder' = NOBODY
    /\ rpc' = "read"
    /\ rmsg' = NoMsg
    /\ UNCHANGED <<engine, poisoned, wire, peerSide, producers, rfail, history>>
    /\ UNCHANGED <<framing, pipes>>

\* a completion that calls send_request / send_notification on its clone of
\* the LanguageServerRef locks the mutex its own thread holds.  std::sync::Mutex
\* leaves that unspecified: the call never returns, it blocks for ever ...
callback_reenter_deadlock ==
    /\ rpc = "callback"
    /\ rpc' = "deadlocked"
    /\ UNCHANGED <<engine, mutex, wire, peerSide, producers, rmsg, rfail, history>>
    /\ UNCHANGED <<framing, pipes>>

\* ... or it panics, and unwinding drops the guard and poisons the mutex
callback_reenter_panic ==
    /\ rpc = "callback"
    /\ reader_panics("reentrant")
    /\ holder' = NOBODY
    /\ poisoned' = TRUE
    /\ UNCHANGED <<engine, wire, peerSent, producers, history>>
    /\ UNCHANGED <<framing, pipes>>

\* --------------------------------------------------------------------- peer
\* the language server writes one message to its stdout; the pipe's read end
\* lives in the reader thread's BufReader and is closed when that thread
\* unwinds, after which nothing can be written to it
peer_write ==
    /\ peerSent < MaxPeerMsgs
    /\ rpc # "panicked"
    /\ stdout' = stdout + 1
    /\ peerSent' = peerSent + 1
    /\ UNCHANGED <<engine, mutex, wire, producers, reader, history>>
    /\ UNCHANGED <<framing, pipes>>

\* ------------------------------------------------------------ specification
Next ==
    \/ \E p \in Producers : send_request(p)
    \/ \E p \in Producers : send_notification(p)
    \/ \E p \in Producers : write(p)
    \/ \E p \in Producers : write_fail(p)
    \/ \E p \in Producers : send_return(p)
    \/ \E m \in PeerMessages : read_message(m)
    \/ \E m \in PeerMessages : read_message_discard(m)
    \/ handle_msg_parse_panic
    \/ handle_msg_response
    \/ callback_return
    \/ callback_reenter_deadlock
    \/ callback_reenter_panic
    \/ peer_write

Spec == Init /\ [][Next]_vars

\* ============================================================ frame layer
\* The byte level of parsing.rs and of prepare_lsp_json.  A byte is a one
\* character string; "\r" and "\n" are CR and LF; "xC3" and "xA9" are the two
\* bytes of the UTF-8 encoding of the character "é".  A text (a Rust String)
\* is a sequence of characters, a stream a sequence of bytes.
RECURSIVE Concat(_)
Concat(seqs) == IF seqs = <<>> THEN <<>> ELSE Head(seqs) \o Concat(Tail(seqs))

\* String::as_bytes / String::len: the UTF-8 encoding of a text
RECURSIVE Utf8Encode(_)
Utf8Encode(text) ==
    IF text = <<>> THEN <<>>
    ELSE (IF Head(text) = "é" THEN <<"xC3", "xA9">> ELSE <<Head(text)>>)
             \o Utf8Encode(Tail(text))

Utf8Error == <<"<invalid utf-8>">>

\* String::from_utf8 (parsing.rs:123): the text the bytes encode, or
\* Utf8Error: a lead byte needs its continuation byte, a continuation byte
\* its lead
RECURSIVE from_utf8(_)
from_utf8(bytes) ==
    IF bytes = <<>> THEN <<>>
    ELSE IF Head(bytes) = "xC3"
    THEN (IF Len(bytes) >= 2 /\ bytes[2] = "xA9"
          THEN (LET rest == from_utf8(Tail(Tail(bytes)))
                IN  IF rest = Utf8Error THEN Utf8Error ELSE <<"é">> \o rest)
          ELSE Utf8Error)
    ELSE IF Head(bytes) = "xA9" THEN Utf8Error
    ELSE (LET rest == from_utf8(Tail(bytes))
          IN  IF rest = Utf8Error THEN Utf8Error ELSE <<Head(bytes)>> \o rest)

\* ------------------------------------------------------------ JSON values
JNull == [t |-> "null", n |-> 0, s |-> <<>>, m |-> <<>>]
JNum(k) == [t |-> "num", n |-> k, s |-> <<>>, m |-> <<>>]
JStr(chars) == [t |-> "str", n |-> 0, s |-> chars, m |-> <<>>]
\* an object: its members <<key, value>> in the order serde_json prints them
JObj(members) == [t |-> "obj", n |-> 0, s |-> <<>>, m |-> members]

\* serde_json::to_string: the compact text of a value (no escapes are needed
\* for the strings of this model)
RECURSIVE to_string(_)
to_string(v) ==
    IF v.t = "null" THEN <<"n", "u", "l", "l">>
    ELSE IF v.t = "num" THEN ToDecimal(v.n)
    ELSE IF v.t = "str" THEN <<"\"">> \o v.s \o <<"\"">>
    ELSE <<"{">>
         \o Concat([i \in 1..Len(v.m) |->
                (IF i > 1 THEN <<",">> ELSE <<>>)
                    \o <<"\"">> \o v.m[i][1] \o <<"\"", ":">> \o to_string(v.m[i][2])])
         \o <<"}">>

JsonError == [t |-> "error", n |-> 0, s |-> <<>>, m |-> <<>>]

\* the JSON documents of the model: a number, a string with a two-byte
\* character, the object of the tests of parsing.rs, and three JSON-RPC
\* messages
K_name == <<"n", "a", "m", "e">>
K_jsonrpc == <<"j", "s", "o", "n", "r", "p", "c">>
K_method == <<"m", "e", "t", "h", "o", "d">>
K_result == <<"r", "e", "s", "u", "l", "t">>
K_id == <<"i", "d">>
V_version == JStr(<<"2", ".", "0">>)
V_one == JNum(1)
V_accent == JStr(<<"é">>)
V_name == JObj(<< <<K_name, JStr(<<"v", "a", "l", "u", "e">>)>> >>)
V_notification == JObj(<< <<K_jsonrpc, V_version>>, <<K_method, JStr(<<"m">>)>> >>)
V_request == JObj(<< <<K_id, JNum(1)>>, <<K_jsonrpc, V_version>>,
                     <<K_method, JStr(<<"m">>)>> >>)
V_success == JObj(<< <<K_id, JNum(1)>>, <<K_jsonrpc, V_version>>,
                     <<K_result, JNull>> >>)
JsonValues == {V_one, V_accent, V_name, V_notification, V_request, V_success}

IsWs(c) == c \in {" ", "\t", "\r", "\n"}

\* the text without the whitespace JSON ignores (whitespace outside strings)
RECURSIVE StripJsonWs(_, _)
StripJsonWs(text, inString) ==
    IF text = <<>> THEN <<>>
    ELSE IF Head(text) = "\"" THEN <<"\"">> \o StripJsonWs(Tail(text), ~inString)
    ELSE IF ~inString /\ IsWs(Head(text)) THEN StripJsonWs(Tail(text), inString)
    ELSE <<Head(text)>> \o StripJsonWs(Tail(text), inString)

\* serde_json::from_str (parsing.rs:124): the value whose text this is, up to
\* insignificant whitespace, or JsonError
from_str(text) ==
    LET canon == StripJsonWs(text, FALSE)
    IN  IF \E v \in JsonValues : to_string(v) = canon
        THEN CHOOSE v \in JsonValues : to_string(v) = canon
        ELSE JsonError

\* the member of an object with this key, or JsonError if there is none
Member(v, key) ==
    IF v.t = "obj" /\ \E i \in 1..Len(v.m) : v.m[i][1] = key
    THEN v.m[CHOOSE i \in 1..Len(v.m) : v.m[i][1] = key][2]
    ELSE JsonError

Has(v, key) == Member(v, key) # JsonError

\* the id member of a message as handle_msg sees it (val.get("id"))
IdOf(v) ==
    LET id == Member(v, K_id)
    IN  IF id = JsonError THEN Missing
        ELSE IF id.t = "num" THEN Num(id.n)
        ELSE IF id.t = "str" THEN Str(id.s)
        ELSE Null

\* JsonRPC::parse as handle_msg uses it (client.rs:159-161): which of the four
\* shapes the value has; "other" is a value that is no JSON-RPC message, on
\* which expect panics
Classify(v) ==
    IF ~Has(v, K_jsonrpc) THEN [kind |-> "other", id |-> Missing]
    ELSE IF Has(v, K_method) /\ Has(v, K_id) THEN [kind |-> "request", id |-> IdOf(v)]
    ELSE IF Has(v, K_method) THEN [kind |-> "notification", id |-> Missing]
    ELSE IF Has(v, K_result) /\ Has(v, K_id) THEN [kind |-> "success", id |-> IdOf(v)]
    ELSE [kind |-> "other", id |-> Missing]

\* --------------------------------------------------------- header parsing
RECURSIVE TrimStart(_)
TrimStart(s) == IF s # <<>> /\ IsWs(Head(s)) THEN TrimStart(Tail(s)) ELSE s

RECURSIVE TrimEnd(_)
TrimEnd(s) ==
    IF s # <<>> /\ IsWs(s[Len(s)]) THEN TrimEnd(SubSeq(s, 1, Len(s) - 1)) ELSE s

\* str::trim
Trim(s) == TrimEnd(TrimStart(s))

UpperCase == <<"A", "B", "C", "D", "E", "F", "G", "H", "I", "J", "K", "L", "M",
               "N", "O", "P", "Q", "R", "S", "T", "U", "V", "W", "X", "Y", "Z">>
LowerCase == <<"a", "b", "c", "d", "e", "f", "g", "h", "i", "j", "k", "l", "m",
               "n", "o", "p", "q", "r", "s", "t", "u", "v", "w", "x", "y", "z">>

\* str::to_lowercase
to_lowercase(s) ==
    [i \in 1..Len(s) |->
        IF \E k \in 1..26 : UpperCase[k] = s[i]
        THEN LowerCase[CHOOSE k \in 1..26 : UpperCase[k] = s[i]]
        ELSE s[i]]

\* (variant: the line is split at every colon)
RECURSIVE split_colon(_)
split_colon(s) ==
    LET at == {i \in 1..Len(s) : s[i] = ":"}
    IN  IF at = {} THEN <<s>>
        ELSE LET i == CHOOSE i \in at : \A j \in at : i <= j
             IN  <<SubSeq(s, 1, i - 1)>> \o split_colon(SubSeq(s, i + 1, Len(s)))

\* s.split(": "): the pieces of s between the occurrences of ": ", taken from
\* the left
RECURSIVE split(_)
split(s) ==
    LET at == {i \in 1..(Len(s) - 1) : s[i] = ":" /\ s[i + 1] = " "}
    IN  IF at = {} THEN <<s>>
        ELSE LET i == CHOOSE i \in at : \A j \in at : i <= j
             IN  <<SubSeq(s, 1, i - 1)>> \o split(SubSeq(s, i + 2, Len(s)))

HEADER_CONTENT_LENGTH ==
    <<"c", "o", "n", "t", "e", "n", "t", "-", "l", "e", "n", "g", "t", "h">>
HEADER_CONTENT_TYPE ==
    <<"c", "o", "n", "t", "e", "n", "t", "-", "t", "y", "p", "e">>

\* results of parse_header and of read_message
HeaderOk(kind, len) == [ok |-> TRUE, kind |-> kind, len |-> len, msg |-> <<>>]
ParseError(kind, msg) == [ok |-> FALSE, kind |-> kind, len |-> 0, msg |-> msg]

\* parse_header (parsing.rs:131-154)
parse_header(s) ==
    LET pieces == split(s)
        parts == [i \in 1..Len(pieces) |-> to_lowercase(Trim(pieces[i]))]
    IN  IF Len(parts) # 2
        THEN ParseError("Unknown", <<"malformed header: ">> \o s)
        ELSE IF parts[1] = HEADER_CONTENT_TYPE
        THEN (IF to_lowercase(parts[2]) \in {<<"u", "t", "f", "-", "8">>,
                                             <<"u", "t", "f", "8">>}
              THEN HeaderOk("ContentType", 0)
              ELSE ParseError("Encoding", <<"Invalid encoding: ">> \o parts[2]))
        ELSE IF parts[1] = HEADER_CONTENT_LENGTH
        THEN (IF ParseU64(parts[2]) >= 0
              THEN HeaderOk("ContentLength", ParseU64(parts[2]))
              ELSE ParseError("ParseInt", <<>>))
        ELSE ParseError("Unknown", <<"Unknown header: ">> \o s)

\* a return value of read_message: Ok(value) or Err(ParseError)
Ok(value) == [ok |-> TRUE, kind |-> "Ok", msg |-> <<>>, value |-> value]
Err(e) == [ok |-> FALSE, kind |-> e.kind, msg |-> e.msg, value |-> JsonError]
Empty == ParseError("Empty", <<>>)
ErrOf(kind, msg) == Err(ParseError(kind, msg))

N_length == <<"C", "o", "n", "t", "e", "n", "t", "-", "L", "e", "n", "g", "t", "h">>
N_length_lower == <<"C", "o", "n", "t", "e", "n", "t", "-", "l", "e", "n", "g", "t", "h">>
N_length_upper == <<"C", "O", "N", "T", "E", "N", "T", "-", "L", "E", "N", "G", "T", "H">>
N_type == <<"C", "o", "n", "t", "e", "n", "t", "-", "T", "y", "p", "e">>
CRLF == <<"\r", "\n">>

\* (variant: the length of the text is counted in characters)
prepare_lsp_json_chars(v) ==
    N_length \o <<":", " ">> \o ToDecimal(Len(to_string(v))) \o CRLF \o CRLF
        \o Utf8Encode(to_string(v))

\* prepare_lsp_json (client.rs:60-67), byte by byte:
\* format!("Content-Length: {}\r\n\r\n{}", request.len(), request) for
\* request = serde_json::to_string(msg)
prepare_lsp_json_bytes(v) ==
    N_length \o <<":", " ">> \o ToDecimal(Len(Utf8Encode(to_string(v)))) \o CRLF \o CRLF
        \o Utf8Encode(to_string(v))

\* a frame written by hand: header lines, the empty line, a body
RawFrame(headers, body) ==
    Concat([i \in 1..Len(headers) |-> headers[i] \o CRLF]) \o CRLF \o body

\* the body of the tests of parsing.rs: {"name": "value"}
B_name == <<"{", "\"", "n", "a", "m", "e", "\"", ":", " ",
            "\"", "v", "a", "l", "u", "e", "\"", "}">>

\* frames a peer may write by hand: the inputs of the tests of parsing.rs
\* (the first with their line ends, "\n\r") and one frame for each way a
\* header line or a body can be accepted or refused
RawFrames == <<
    N_length \o <<":", " ", "1", "8", "\n", "\r", "\n", "\r">> \o B_name,
    RawFrame(<<N_length_lower \o <<":", " ", "1", "7">>,
               N_type \o <<":", " ", "u", "t", "f", "-", "8">>>>, B_name),
    RawFrame(<<N_length_upper \o <<":", " ", "1">>,
               N_type \o <<":", " ", "U", "T", "F", "8">>>>, <<"1">>),
    RawFrame(<<N_length \o <<":", "1">>>>, <<"1">>),
    RawFrame(<<N_type \o <<":", " ", "a", "s", "c", "i", "i">>,
               N_length \o <<":", " ", "1">>>>, <<"1">>),
    RawFrame(<<<<"H", "e", "l", "l", "o", ":", " ", "w", "o", "r", "l", "d">>>>, <<>>),
    RawFrame(<<N_length \o <<":", " ", "1", " ", "h", "i">>>>, <<"1">>),
    RawFrame(<<N_type \o <<":", " ", "u", "t", "f", "-", "8">>>>, <<"1">>),
    RawFrame(<<N_length \o <<":", " ", "0">>>>, <<>>),
    RawFrame(<<N_length \o <<":", " ", "2">>>>, <<"\"", "xC3", "xA9", "\"">>),
    RawFrame(<<N_length \o <<":", " ", "3">>>>, <<"1">>),
    RawFrame(<<N_length \o <<":", " ", "+", "1">>>>, <<"1">>),
    RawFrame(<<N_length \o <<":", " ", "1", ":", " ", "2">>>>, <<"1">>),
    RawFrame(<<<<" ">> \o N_length_lower \o <<" ", ":", " ", "1", " ">>>>, <<"1">>) >>

\* ------------------------------------------------------- the frame reader
\* where the first line of the stream ends, 0 if no line feed is in it
RECURSIVE LineEndFrom(_, _)
LineEndFrom(src, i) ==
    IF i > Len(src) THEN 0
    ELSE IF src[i] = "\n" THEN i
    ELSE LineEndFrom(src, i + 1)

LineEnd(src) == LineEndFrom(src, 1)

\* (variant: the loop ends the thread at the first Empty)
reader_loop_breakOnEmpty(result) ==
    IF result.ok THEN "handle" ELSE IF result.kind = "Empty" THEN "exited" ELSE "read"

\* (variant: the loop ends the thread at the first error that is not Empty)
reader_loop_breakOnError(result) ==
    IF result.ok THEN "handle" ELSE IF result.kind = "Empty" THEN "read" ELSE "exited"

\* the match of the reader loop (client.rs:218-223) on what read_message
\* returned: Ok goes to handle_msg, Empty and every other error go round the
\* loop, which has no exit
reader_loop(result) == IF result.ok THEN "handle" ELSE "read"

\* read_message returns: its locals are gone, the loop matches on the result
Return(result) ==
    /\ results' = IF result.kind = "Empty" THEN results ELSE Append(results, result)
    /\ lastEmpty' = (result.kind = "Empty")
    /\ rpc' = reader_loop(result)
    /\ rmsg' = IF result.ok THEN Classify(result.value) ELSE NoMsg
    /\ fpc' = "start"
    /\ content_length' = -1
    /\ buffer' = <<>>

\* one turn of the header loop of read_message (parsing.rs:98-114):
\* reader.read_line blocks until a line feed or the end of the stream is
\* there; zero bytes is Err(Empty); a blank line ends the headers, and without
\* a content-length that is an error; any other line goes to parse_header,
\* whose error read_message returns at once
read_line ==
    /\ rpc = "read"
    /\ fpc \in {"start", "headers"}
    /\ LineEnd(source) > 0 \/ closed
    /\ LET n == IF LineEnd(source) > 0 THEN LineEnd(source) ELSE Len(source)
           line == from_utf8(SubSeq(source, 1, n))
           header == parse_header(line)
       IN  /\ source' = SubSeq(source, n + 1, Len(source))
           /\ IF n = 0
              THEN Return(Err(Empty)) /\ UNCHANGED parsed
              ELSE IF line = Utf8Error
              THEN Return(ErrOf("Io", <<>>)) /\ UNCHANGED parsed
              ELSE IF Trim(line) = <<>>
              THEN IF content_length < 0
                   THEN /\ Return(ErrOf("Unknown",
                                      <<"missing content-length header: ">> \o line))
                        /\ UNCHANGED parsed
                   ELSE /\ fpc' = "body"
                        /\ buffer' = line
                        /\ UNCHANGED <<content_length, parsed, results, lastEmpty, rpc, rmsg>>
              ELSE /\ parsed' = [line |-> line, result |-> header]
                   /\ IF ~header.ok
                      THEN Return(Err(header))
                      ELSE /\ fpc' = "headers"
                           /\ buffer' = line
                           /\ content_length' =
                                  IF header.kind = "ContentLength"
                                  THEN header.len ELSE content_length
                           /\ UNCHANGED <<results, lastEmpty, rpc, rmsg>>
    /\ UNCHANGED <<pipes, engine, mutex, wire, peerSide, producers, rfail, history,
                   closed, written>>

\* the rest of read_message (parsing.rs:120-124): read_exact blocks until
\* content_length bytes or the end of the stream are there (too few bytes is
\* an io::Error), then String::from_utf8 and serde_json::from_str
read_body ==
    /\ rpc = "read"
    /\ fpc = "body"
    /\ Len(source) >= content_length \/ closed
    /\ IF Len(source) < content_length
       THEN /\ source' = <<>>
            /\ Return(ErrOf("Io", <<>>))
       ELSE LET text == from_utf8(SubSeq(source, 1, content_length))
            IN  /\ source' = SubSeq(source, content_length + 1, Len(source))
                /\ IF text = Utf8Error THEN Return(ErrOf("Utf8", <<>>))
                   ELSE LET value == from_str(text)
                        IN  IF value = JsonError THEN Return(ErrOf("Json", <<>>))
                            ELSE Return(Ok(value))
    /\ UNCHANGED <<pipes, engine, mutex, wire, peerSide, producers, rfail, history,
                   closed, written, parsed>>

\* handle_msg, JsonRPC::Request and JsonRPC::Notification (client.rs:162-164):
\* the message is logged and the loop reads on
handle_msg_discard ==
    /\ rpc = "handle"
    /\ rmsg.kind \in {"request", "notification"}
    /\ rpc' = "read"
    /\ rmsg' = NoMsg
    /\ UNCHANGED <<engine, mutex, wire, peerSide, producers, rfail, history, framing, pipes>>

\* the peer writes a frame with the frame writer ...
write_framed(v) ==
    /\ ~closed
    /\ rpc # "panicked"
    /\ Len(written) < MaxFrames
    /\ source' = source \o prepare_lsp_json_bytes(v)
    /\ written' = Append(written, [framed |-> TRUE, value |-> v])
    /\ UNCHANGED <<pipes, engine, mutex, wire, peerSide, producers, reader, history,
                   closed, results, lastEmpty, content_length, buffer, parsed, fpc>>

\* ... or one it made by hand
write_raw(f) ==
    /\ ~closed
    /\ rpc # "panicked"
    /\ Len(written) < MaxFrames
    /\ source' = source \o RawFrames[f]
    /\ written' = Append(written, [framed |-> FALSE, value |-> JsonError])
    /\ UNCHANGED <<pipes, engine, mutex, wire, peerSide, producers, reader, history,
                   closed, results, lastEmpty, content_length, buffer, parsed, fpc>>

\* the peer closes its stdout (or exits)
peer_close ==
    /\ ~closed
    /\ closed' = TRUE
    /\ UNCHANGED <<pipes, engine, mutex, wire, peerSide, producers, reader, history,
                   source, written, results, lastEmpty, content_length, buffer,
                   parsed, fpc>>

ReaderNext ==
    \/ \E v \in JsonValues : write_framed(v)
    \/ \E f \in 1..Len(RawFrames) : write_raw(f)
    \/ peer_close
    \/ read_line
    \/ read_body
    \/ handle_msg_discard
    \/ handle_msg_parse_panic
    \/ handle_msg_response

\* the reader thread alone, on a stream a peer writes frame by frame: no
\* request has been sent, next_id is 1 and the pending table is empty
ReaderSpec == Init /\ [][ReaderNext]_vars

\* ============================================================ bounded pipes
\* The engine between two pipes of finite capacity, and a peer that reads its
\* stdin frame by frame and answers every request it has read.  The peer is
\* one thread: while it writes a message to its stdout it does not read its
\* stdin.  No write fails and no callback touches the engine.
StdinFull == Len(wire) - peerRead >= StdinCapacity
StdoutFull == Len(stdoutPipe) >= StdoutCapacity

\* a message of the peer as it goes through the pipe: like a frame of the
\* engine, its header and its body
PeerFrame(m) == <<[part |-> "hdr", msg |-> m], [part |-> "body", msg |-> m]>>

\* LanguageServer::write (client.rs:71-76) on a pipe: write_all blocks while
\* the pipe is full, inside the critical section
write_blocking(p) ==
    /\ ~StdinFull
    /\ write(p)

\* the peer reads the next chunk of its stdin; with the last chunk of a
\* request it has the request and starts to answer it, with a result or with
\* an error
peer_read ==
    /\ peerTodo = <<>>
    /\ peerRead < Len(wire)
    /\ peerRead' = peerRead + 1
    /\ LET chunk == wire[peerRead + 1]
       IN  IF chunk.part = "body" /\ chunk.frame.id # Missing
           THEN \E kind \in {"success", "error"} :
                   /\ peerTodo' = PeerFrame([kind |-> kind, id |-> chunk.frame.id])
                   /\ peerSent' = peerSent + 1
           ELSE UNCHANGED <<peerTodo, peerSent>>
    /\ UNCHANGED <<engine, mutex, wire, stdout, producers, reader, history,
                   framing, stdoutPipe>>

\* the peer starts to write a notification of its own (diagnostics, a log
\* message)
peer_notify ==
    /\ peerTodo = <<>>
    /\ peerSent < MaxPeerMsgs
    /\ peerTodo' = PeerFrame([kind |-> "notification", id |-> Missing])
    /\ peerSent' = peerSent + 1
    /\ UNCHANGED <<engine, mutex, wire, stdout, producers, reader, history,
                   framing, peerRead, stdoutPipe>>

\* the peer's write to its stdout blocks while that pipe is full
peer_write_chunk ==
    /\ peerTodo # <<>>
    /\ ~StdoutFull
    /\ stdoutPipe' = Append(stdoutPipe, Head(peerTodo))
    /\ peerTodo' = Tail(peerTodo)
    /\ UNCHANGED <<engine, mutex, wire, peerSide, producers, reader, history,
                   framing, peerRead>>

\* the reader loop (client.rs:218-224): read_message takes what is in the
\* pipe; with the body it returns the message, and handle_msg logs a
\* notification and goes on to lock the mutex for a response
read_chunk ==
    /\ rpc = "read"
    /\ stdoutPipe # <<>>
    /\ stdoutPipe' = Tail(stdoutPipe)
    /\ LET chunk == Head(stdoutPipe)
       IN  IF chunk.part = "body" /\ IsResponse(chunk.msg)
           THEN /\ rmsg' = chunk.msg
                /\ rpc' = "handle"
           ELSE UNCHANGED <<rmsg, rpc>>
    /\ UNCHANGED <<engine, mutex, wire, peerSide, producers, rfail, history,
                   framing, peerRead, peerTodo>>

PipeNext ==
    \/ \E p \in Producers : send_request(p)
    \/ \E p \in Producers : send_notification(p)
    \/ \E p \in Producers : write_blocking(p)
    \/ \E p \in Producers : send_return(p)
    \/ peer_read
    \/ peer_notify
    \/ peer_write_chunk
    \/ read_chunk
    \/ handle_msg_response
    \/ callback_return

PipeSpec == Init /\ [][PipeNext]_vars

\* ------------------------------------------------------------- properties
IssuedIds == {issued[i].id : i \in 1..Len(issued)}

\* the callback send_request registered for id, read from the history
IssuedCb(id) == issued[CHOOSE i \in 1..Len(issued) : issued[i].id = id].cb

\* how often the completion cb has been invoked
RECURSIVE CountCalls(_, _)
CountCalls(log, cb) ==
    IF log = <<>> THEN 0
    ELSE (IF Head(log).cb = cb THEN 1 ELSE 0) + CountCalls(Tail(log), cb)

\* positions on the wire of the chunks of request id
ChunksOf(id) == {a \in 1..Len(wire) : wire[a].frame.id = Num(id)}

\* positions of the first chunk of each request frame
RequestStarts ==
    {a \in 1..Len(wire) : wire[a].part = "hdr" /\ wire[a].frame.id.t = "num"}

\* the frame of request id is completely written
Written(id) == \E a \in ChunksOf(id) : wire[a].part = "body"

\* C1 (P1, unique-id): no two registered requests and no two request frames
\* on the wire carry the same id, whatever the interleaving of producers,
\* notifications and ingest steps.
UniqueIds ==
    /\ \A i, j \in 1..Len(issued) : i # j => issued[i].id # issued[j].id
    /\ \A a, b \in RequestStarts : a # b => wire[a].frame.id # wire[b].frame.id

\* two producers have each had a request written, and a response was ingested
UniqueIdsWitness ==
    /\ Len(issued) = 2
    /\ issued[1].cb.by # issued[2].cb.by
    /\ Written(issued[1].id) /\ Written(issued[2].id)
    /\ Len(calls) = 1

\* C2 (P3 / I3): each registered completion has been invoked at most once,
\* and exactly once if and only if its id has left the pending table; every
\* invocation carries exactly one of Ok and Err.
AtMostOnce ==
    /\ \A i \in 1..Len(issued) :
          CountCalls(calls, issued[i].cb) =
              (IF issued[i].id \in DOMAIN pending THEN 0 ELSE 1)
    /\ \A k \in 1..Len(calls) : calls[k].outcome \in {"Ok", "Err"}

\* a second response with the id of a completed request has been ingested:
\* the callback ran once, for the first
AtMostOnceWitness ==
    /\ Len(calls) = 1
    /\ rpc = "panicked"
    /\ rfail = "unknown_id"
    /\ number_from_id(rmsg.id) = number_from_id(calls[1].val.id)

\* C3 (P4, round-trip routing): a step that ingests a response whose id is in
\* flight invokes exactly the callback registered for that id, once, with Ok
\* for a success and Err for an error response, carrying the full message;
\* and no other step invokes a callback.
RoundTrip ==
    [][LET ingest == /\ rpc = "handle"
                     /\ rpc' # "handle"
                     /\ ~poisoned
                     /\ number_from_id(rmsg.id) \in DOMAIN pending
       IN  /\ ingest =>
                calls' = Append(calls,
                    [cb |-> IssuedCb(number_from_id(rmsg.id)),
                     outcome |-> IF rmsg.kind = "success" THEN "Ok" ELSE "Err",
                     val |-> rmsg])
           /\ calls' # calls => ingest]_vars

\* the second request was answered first, with a success, then the first with
\* an error; each callback got its own response
RoundTripWitness ==
    /\ Len(calls) = 2
    /\ calls[1].cb = IssuedCb(2) /\ calls[1].outcome = "Ok"
    /\ calls[1].val = [kind |-> "success", id |-> Num(2)]
    /\ calls[2].cb = IssuedCb(1) /\ calls[2].outcome = "Err"
    /\ calls[2].val = [kind |-> "error", id |-> Str(<<"1">>)]

\* C4: while a completion callback runs the reader thread does not hold the
\* mutex, and a callback that calls back into the engine completes (the
\* reader neither blocks for ever nor panics in it).
CallbackRunsUnlocked ==
    /\ rpc = "callback" => holder # READER
    /\ rpc # "deadlocked"
    /\ rfail # "reentrant"

\* C5 (I1): the ids registered are 1, 2, .., n in this order, n the number of
\* send_request calls that took the lock, next_id is n + 1 and exceeds every
\* key of the pending table; notifications and ingest steps leave it alone.
ConsecutiveIds ==
    /\ \A i \in 1..Len(issued) : issued[i].id = i
    /\ next_id = Len(issued) + 1
    /\ \A k \in DOMAIN pending : k < next_id

\* one request, its response ingested, and a notification written after it:
\* next_id is 2
ConsecutiveIdsWitness ==
    /\ next_id = 2
    /\ Len(calls) = 1
    /\ Len(wire) = 4
    /\ wire[4] = [part |-> "body", frame |-> NotificationFrame(wire[4].frame.method[1],
                                                               wire[4].frame.method[2])]

\* C6 (P2 and submission order): of two requests one producer issued in
\* program order the later has the larger id, and no chunk of its frame is on
\* the wire before the earlier frame is complete; the ids of the request
\* frames on the wire increase in wire order.
MonotonicOrder ==
    /\ \A i, j \in 1..Len(issued) :
          (issued[i].cb.by = issued[j].cb.by /\ issued[i].cb.seq < issued[j].cb.seq)
              => /\ issued[i].id < issued[j].id
                 /\ \A a \in ChunksOf(issued[i].id), b \in ChunksOf(issued[j].id) : a < b
                 /\ ChunksOf(issued[j].id) # {} => Written(issued[i].id)
    /\ \A a, b \in RequestStarts : a < b => wire[a].frame.id.n < wire[b].frame.id.n

\* one producer has issued two requests and both frames are written
MonotonicOrderWitness ==
    /\ Len(issued) = 2
    /\ issued[1].cb.by = issued[2].cb.by
    /\ issued[1].cb.seq < issued[2].cb.seq
    /\ Written(issued[1].id) /\ Written(issued[2].id)

\* C7 (I4, frame atomicity): the chunks of a frame are contiguous on the wire:
\* a header is followed by the body of the same frame or is the last thing
\* written, and a body directly follows the header of its own frame.
FrameAtomic ==
    \A a \in 1..Len(wire) :
        /\ wire[a].part = "hdr" =>
              \/ a = Len(wire)
              \/ wire[a + 1] = [part |-> "body", frame |-> wire[a].frame]
        /\ wire[a].part = "body" =>
              /\ a > 1
              /\ wire[a - 1] = [part |-> "hdr", frame |-> wire[a].frame]

\* two producers have each written a whole frame, and one of them waited for
\* the mutex to do it
FrameAtomicWitness ==
    /\ Len(wire) = 4
    /\ wire[1].frame.method[1] # wire[3].frame.method[1]
    /\ wire[2].part = "body" /\ wire[4].part = "body"

\* C8: a completion callback has only been invoked for a request whose
\* send_request call has returned.
CallbackAfterReturn ==
    \A k \in 1..Len(calls) :
        \E i \in 1..Len(issued) :
            /\ issued[i].cb = calls[k].cb
            /\ issued[i].id \in returned

\* the callback of the first request has run while the second request is
\* still being written
CallbackAfterReturnWitness ==
    /\ Len(calls) = 1
    /\ calls[1].cb = IssuedCb(1)
    /\ 1 \in returned
    /\ \E p \in Producers : ppc[p] = "write" /\ pframe[p].id = Num(2)

\* the shapes of id the engine refuses: absent, null, a negative number, a
\* string that is no decimal
Uncoercible(id) ==
    \/ id.t \in {"missing", "null"}
    \/ id.t = "num" /\ id.n < 0
    \/ id.t = "str" /\ ParseU64(id.s) < 0

\* the response the reader is handling is a protocol violation
Violation ==
    /\ rpc = "handle"
    /\ IsResponse(rmsg)
    /\ \/ Uncoercible(rmsg.id)
       \/ number_from_id(rmsg.id) \notin DOMAIN pending

\* the reader thread has stopped on a protocol violation
StoppedOnViolation == rpc = "panicked" /\ rfail \in {"parse", "bad_id", "unknown_id"}

ErrorDoesNotPoison ==
    [][/\ (/\ rpc = "handle"
           /\ rpc' # rpc
           /\ rmsg.kind = "error"
           /\ ~poisoned
           /\ number_from_id(rmsg.id) \in DOMAIN pending)
          => /\ rpc' = "callback"
             /\ ~poisoned'
             /\ rfail' = "none"
             /\ calls'[Len(calls')].outcome = "Err"
       /\ (/\ rpc = "callback"
           /\ calls[Len(calls)].outcome = "Err"
           /\ rpc' = "read")
          => /\ holder' = NOBODY
             /\ ~poisoned'
             /\ rfail' = "none"
             /\ <<next_id', pending'>> = <<next_id, pending>>]_vars

\* after the callback of the first request ran with Err, a later send_request
\* took the mutex and wrote its whole frame
ErrorDoesNotPoisonWitness ==
    /\ Len(calls) = 1
    /\ calls[1].outcome = "Err"
    /\ rpc = "read"
    /\ \E p \in Producers : ppc[p] = "unlock" /\ pframe[p].id = Num(2)
    /\ Written(2)

\* a step in which a write or flush of producer p fails: p is inside
\* LanguageServer::write, takes a step, and nothing reached the wire
FailedWrite(p) ==
    /\ ppc[p] = "write"
    /\ <<ppc'[p], ppart'[p]>> # <<ppc[p], ppart[p]>>
    /\ wire' = wire

\* C11 as stated: a write or flush failure during send_request or
\* send_notification produces no failure in the calling thread, and the
\* request stays pending.
TransportErrorsNotSurfaced ==
    [][\A p \in Producers :
          FailedWrite(p) => (ppc'[p] # "panicked" /\ pending' = pending)]_vars

\* C11 as amended: a write or flush failure panics the calling thread inside
\* the critical section, which poisons the mutex; no callback is invoked,
\* next_id and the pending table are unchanged, and the entry of a request
\* whose write failed stays in the pending table from then on.
WriteFailurePanicsCaller ==
    [][\A p \in Producers :
          /\ FailedWrite(p) =>
                /\ ppc'[p] = "panicked"
                /\ poisoned'
                /\ holder' = NOBODY
                /\ <<next_id', pending', calls'>> = <<next_id, pending, calls>>
          /\ (ppc[p] = "panicked" /\ pframe[p].id.t = "num") =>
                /\ ppc'[p] = "panicked"
                /\ pframe[p].id.n \in DOMAIN pending
                /\ pframe[p].id.n \in DOMAIN pending']_vars

\* the write of the body of request 1 failed after its header went out: the
\* caller has panicked, the mutex is poisoned, the entry is still pending,
\* and the reader has since died on the poisoned mutex
WriteFailurePanicsCallerWitness ==
    /\ \E p \in Producers :
          /\ ppc[p] = "panicked"
          /\ pframe[p].id = Num(1)
          /\ ppart[p] = 2
    /\ poisoned
    /\ 1 \in DOMAIN pending
    /\ rfail = "poisoned"

\* C12 (identifier normalization): ingesting a response whose id is the JSON
\* string holding the decimal of n, n in flight, does exactly what ingesting
\* one whose id is the JSON number n does: the callback registered for n is
\* invoked, once, and n leaves the pending table, the other entries staying.
StringIdNormalized ==
    [][\A n \in DOMAIN pending :
          (/\ rpc = "handle"
           /\ rpc' # rpc
           /\ ~poisoned
           /\ rmsg.id \in {Num(n), Str(ToDecimal(n))})
          => /\ rpc' = "callback"
             /\ calls' = Append(calls,
                    [cb |-> IssuedCb(n),
                     outcome |-> IF rmsg.kind = "success" THEN "Ok" ELSE "Err",
                     val |-> rmsg])
             /\ pending' = [k \in DOMAIN pending \ {n} |-> pending[k]]]_vars

\* with requests 1 and 2 in flight a success response with the string id "2"
\* was ingested: the callback of request 2 ran and 1 alone is still pending
StringIdNormalizedWitness ==
    /\ Len(calls) = 1
    /\ calls[1].val = [kind |-> "success", id |-> Str(<<"2">>)]
    /\ calls[1].cb = IssuedCb(2)
    /\ calls[1].outcome = "Ok"
    /\ DOMAIN pending = {1}

\* the calls that registered a request, as <<caller, number of the call>>
RequestCalls == {<<issued[i].cb.by, issued[i].cb.seq>> : i \in 1..Len(issued)}

\* producer p takes a step of a send_notification call: the one that enters
\* it, or one inside it
NotificationStep(p) ==
    /\ ppc'[p] # ppc[p] \/ ppart'[p] # ppart[p]
    /\ \/ ppc[p] = "idle" /\ <<p, pseq'[p]>> \notin RequestCalls'
       \/ ppc[p] # "idle" /\ <<p, pseq[p]>> \notin RequestCalls

\* C13: no step of a send_notification call changes next_id or the pending
\* table, whatever the state it runs in; what the call writes has no id; and
\* when the call has written its frame there is exactly one frame of it on
\* the wire, header then body, contiguous.
NotificationEffect ==
    [][\A p \in Producers :
          NotificationStep(p) =>
              /\ <<next_id', pending'>> = <<next_id, pending>>
              /\ \A a \in 1..Len(wire') :
                    wire'[a].frame.method = <<p, pseq'[p]>> => wire'[a].frame.id = Missing
              /\ ppc'[p] = "unlock" =>
                    /\ {a \in 1..Len(wire') : wire'[a].frame.method = <<p, pseq'[p]>>}
                           = {Len(wire') - 1, Len(wire')}
                    /\ wire'[Len(wire') - 1].part = "hdr"
                    /\ wire'[Len(wire')].part = "body"]_vars

\* a notification was sent while request 1 was in flight: its frame is whole
\* and has no id, next_id is still 2 and the table still holds 1 alone
NotificationEffectWitness ==
    /\ Len(wire) = 4
    /\ wire[1].frame.id = Num(1)
    /\ wire[3].frame.id = Missing /\ wire[3].part = "hdr"
    /\ wire[4].frame = wire[3].frame /\ wire[4].part = "body"
    /\ next_id = 2
    /\ DOMAIN pending = {1}
    /\ \A p \in Producers : ppc[p] = "idle"

\* the ids whose callback has been invoked
CalledIds ==
    {issued[i].id : i \in {i \in 1..Len(issued) :
                               \E k \in 1..Len(calls) : calls[k].cb = issued[i].cb}}

\* C16 (I2, register before release): the id of a request is in the pending
\* table before the first byte of its frame is written; every id in a request
\* frame on the wire is a key of the pending table or has been one (its
\* callback has run); and a response to a request on the wire is never
\* refused as unknown unless its entry was already used up.
RegisterBeforeRelease ==
    /\ \A p \in Producers :
          (ppc[p] = "write" /\ pframe[p].id.t = "num")
              => pframe[p].id.n \in DOMAIN pending
    /\ {wire[a].frame.id.n : a \in RequestStarts} \subseteq DOMAIN pending \cup CalledIds
    /\ (rfail = "unknown_id" /\ ChunksOf(number_from_id(rmsg.id)) # {})
          => number_from_id(rmsg.id) \in CalledIds

\* the response to request 1 was ingested as soon as its frame was out, and
\* request 2 is registered while no byte of its frame has been written
RegisterBeforeReleaseWitness ==
    /\ Written(1)
    /\ 1 \in CalledIds
    /\ \E p \in Producers :
          ppc[p] = "write" /\ ppart[p] = 1 /\ pframe[p].id = Num(2)
    /\ ChunksOf(2) = {}
    /\ DOMAIN pending = {2}

\* the ids for which handle_response or handle_error has run
IngestedIds == {number_from_id(calls[k].val.id) : k \in 1..Len(calls)}

\* C17 (pending-table accounting): the keys of the pending table are the ids
\* send_request issued minus the ids whose response was ingested; a key is
\* added only by the step of send_request that registers it and removed only
\* by the ingest of a response with that id (no other step, so no timeout
\* and no cancellation, changes the table).
PendingAccounting ==
    [][/\ (DOMAIN pending = IssuedIds \ IngestedIds)'
       /\ DOMAIN pending' # DOMAIN pending =>
             \/ /\ \E p \in Producers : ppc[p] = "idle" /\ ppc'[p] = "write"
                /\ DOMAIN pending' = DOMAIN pending \cup {next_id}
                /\ next_id \notin DOMAIN pending
             \/ /\ rpc = "handle" /\ rpc' = "callback"
                /\ IsResponse(rmsg)
                /\ number_from_id(rmsg.id) \in DOMAIN pending
                /\ DOMAIN pending' = DOMAIN pending \ {number_from_id(rmsg.id)}
       /\ \A k \in DOMAIN pending \cap DOMAIN pending' : pending'[k] = pending[k]]_vars

\* two requests were issued and written, the second was answered with an
\* error, the first never: it is still pending when everything has stopped
PendingAccountingWitness ==
    /\ IssuedIds = {1, 2}
    /\ IngestedIds = {2}
    /\ DOMAIN pending = {1}
    /\ calls[1].outcome = "Err"
    /\ nOps = MaxOps
    /\ peerSent = MaxPeerMsgs /\ stdout = 0
    /\ rpc = "read"
    /\ \A p \in Producers : ppc[p] = "idle"

\* the reader consumed a message and is back at the top of its loop without
\* having entered the locking arms of handle_msg
DiscardStep == rpc = "read" /\ rpc' = "read" /\ stdout' = stdout - 1

\* C18: ingesting a Notification or a server-initiated Request invokes no
\* callback, writes no frame, and leaves next_id, the pending table and the
\* mutex as they were, also when the Request carries the id of a request in
\* flight; only Success and Error messages get as far as the lock and the
\* callbacks.
LogAndDiscard ==
    [][/\ DiscardStep =>
             /\ <<calls', wire', next_id', pending'>> = <<calls, wire, next_id, pending>>
             /\ <<holder', poisoned'>> = <<holder, poisoned>>
       /\ rpc' \in {"handle", "callback"} => rmsg'.kind \in {"success", "error"}
       /\ calls' # calls => rmsg.kind \in {"success", "error"}]_vars

\* a server request with id 1 was discarded while request 1 was in flight,
\* and the response that came after it still reached the callback of 1
LogAndDiscardWitness ==
    /\ dropped
    /\ IssuedIds = {1}
    /\ Len(calls) = 1
    /\ calls[1].cb = IssuedCb(1)
    /\ Len(wire) = 2
    /\ next_id = 2
    /\ rpc = "read"

\* the frames the peer has written that no read_message has returned yet,
\* as the frame writer emits them
Unread ==
    Concat([i \in 1..(Len(written) - Len(results)) |->
                prepare_lsp_json_bytes(written[Len(results) + i].value)])

\* C14 (P5 and frame positioning): when every frame on the stream was written
\* by the frame writer, the read_message calls so far have returned the
\* values written, in the order written, and each time read_message has
\* returned the stream is at the first byte of the next frame: what is
\* unread is exactly the frames not yet returned.
FrameRoundTrip ==
    (\A i \in 1..Len(written) : written[i].framed) =>
        /\ Len(results) <= Len(written)
        /\ \A k \in 1..Len(results) : results[k] = Ok(written[k].value)
        /\ fpc = "start" => source = Unread

\* a notification and then a string with a two-byte character were written
\* by the frame writer and both have been read back, the stream is used up
FrameRoundTripWitness ==
    /\ written = <<[framed |-> TRUE, value |-> V_notification],
                   [framed |-> TRUE, value |-> V_accent]>>
    /\ results = <<Ok(V_notification), Ok(V_accent)>>
    /\ source = <<>>

\* where the separator ": " occurs in a line
Separators(line) == {i \in 1..(Len(line) - 1) : line[i] = ":" /\ line[i + 1] = " "}

\* a decimal unsigned value as usize::from_str takes it: digits, which one
\* "+" may precede
IsDecimal(v) ==
    LET ds == IF v # <<>> /\ Head(v) = "+" THEN Tail(v) ELSE v
    IN  ds # <<>> /\ \A i \in 1..Len(ds) : \E d \in 1..Len(Digits) : Digits[d] = ds[i]

\* the classification C15 gives a header line, name and value taken without
\* the whitespace around them and in lower case
Classified(line) ==
    IF Cardinality(Separators(line)) # 1
    THEN ParseError("Unknown", <<"malformed header: ">> \o line)
    ELSE LET at == CHOOSE i \in Separators(line) : TRUE
             name == to_lowercase(Trim(SubSeq(line, 1, at - 1)))
             val == to_lowercase(Trim(SubSeq(line, at + 2, Len(line))))
         IN  IF name = HEADER_CONTENT_LENGTH
             THEN (IF IsDecimal(val) THEN HeaderOk("ContentLength", ParseU64(val))
                   ELSE ParseError("ParseInt", <<>>))
             ELSE IF name = HEADER_CONTENT_TYPE
             THEN (IF val \in {<<"u", "t", "f", "-", "8">>, <<"u", "t", "f", "8">>}
                   THEN HeaderOk("ContentType", 0)
                   ELSE ParseError("Encoding", <<"Invalid encoding: ">> \o val))
             ELSE ParseError("Unknown", <<"Unknown header: ">> \o line)

\* C15 (header-line classification): whatever header line parse_header is
\* given, a line that the separator ": " does not cut into exactly two parts
\* is Unknown("malformed header: ..."); otherwise content-length, in any
\* case, gives ContentLength(n) for a decimal unsigned value n and an
\* integer-parse error for any other value, content-type is accepted with
\* utf-8 or utf8 and gives Encoding("Invalid encoding: ...") with anything
\* else, and any other name gives Unknown("Unknown header: ...").
HeaderClassified ==
    parsed.line # <<>> => parsed.result = Classified(parsed.line)

\* after a frame with an unknown header was refused, a header line with a
\* lower-case name and blanks around name and value gave ContentLength(1)
HeaderClassifiedWitness ==
    /\ Len(results) >= 1
    /\ results[1].kind = "Unknown"
    /\ parsed.line[1] = " "
    /\ parsed.result = HeaderOk("ContentLength", 1)

\* a step in which read_message returns an error, Empty or any other
ReturnsError ==
    /\ rpc = "read"
    /\ \/ lastEmpty' /\ ~lastEmpty
       \/ Len(results') = Len(results) + 1 /\ ~results'[Len(results')].ok

\* the reader thread is at the top of its loop, about to call read_message
AtLoopTop == rpc = "read" /\ fpc = "start"

AtEndOfStream == AtLoopTop /\ closed /\ source = <<>>

\* C20 as stated: once the child's stdout is closed the reader thread exits,
\* it does not keep running on the closed stream: the read_message call that
\* meets the end of the stream is the reader's last.
ExitsOnEndOfStream ==
    [][AtEndOfStream => ~AtLoopTop']_vars

\* C20 as amended: once the child's stdout is closed and used up every
\* read_message call returns Empty, and the reader thread is back at the top
\* of its loop, on the closed stream, about to call read_message again: it
\* never exits.
KeepsReadingAfterClose ==
    [][/\ AtEndOfStream => (AtEndOfStream' /\ lastEmpty' /\ results' = results)
       /\ lastEmpty' => AtEndOfStream']_vars

\* a notification was read and discarded, the child closed its stdout, and
\* read_message has returned Empty: the reader is at the top of its loop
KeepsReadingAfterCloseWitness ==
    /\ results = <<Ok(V_notification)>>
    /\ lastEmpty
    /\ AtEndOfStream
    /\ rfail = "none"

\* the threads inside the critical section: a producer from its lock to the
\* drop of its guard, the reader from its lock to the end of the match arm
InCriticalSection ==
    {p \in Producers : ppc[p] \in {"write", "unlock"}}
        \cup (IF rpc \in {"callback", "deadlocked"} THEN {READER} ELSE {})

\* C21 (single-lock discipline): at most one thread is inside the critical
\* section, and it is the thread that holds the mutex; every step that writes
\* to the child's stdin is taken by the producer holding the mutex, every step
\* that changes next_id or inserts into the pending table by the producer that
\* takes the mutex in it, and every step that removes from the pending table
\* by the reader thread taking the mutex in it.
SingleLock ==
    [][/\ InCriticalSection = {holder} \ {NOBODY}
       /\ InCriticalSection' = {holder'} \ {NOBODY}
       /\ wire' # wire =>
             /\ holder \in Producers
             /\ holder' = holder
             /\ ppc[holder] = "write"
             /\ wire' = Append(wire, prepare_lsp_json(pframe[holder])[ppart[holder]])
       /\ (next_id' # next_id \/ DOMAIN pending' \ DOMAIN pending # {}) =>
             /\ holder = NOBODY
             /\ holder' \in Producers
             /\ pframe'[holder'].id = Num(next_id)
             /\ DOMAIN pending' = DOMAIN pending \cup {next_id}
       /\ DOMAIN pending \ DOMAIN pending' # {} =>
             /\ holder = NOBODY
             /\ holder' = READER
             /\ rpc = "handle"]_vars

\* a producer is writing the second chunk of its frame under the mutex while
\* the other producer has not started and the reader, a response for a
\* request in flight in hand, waits for the mutex
SingleLockWitness ==
    /\ \E p \in Producers :
          /\ holder = p
          /\ ppc[p] = "write"
          /\ ppart[p] = 2
          /\ \E q \in Producers \ {p} : ppc[q] = "idle"
    /\ rpc = "handle"
    /\ IsResponse(rmsg)
    /\ number_from_id(rmsg.id) \in DOMAIN pending
    /\ ~poisoned

\* a producer is blocked in the write of its frame, holding the mutex: the
\* pipe to the child's stdin is full
ProducerBlockedInWrite(p) == ppc[p] = "write" /\ holder = p /\ StdinFull

\* the reader thread has a response in hand and waits for the mutex
ReaderBlockedOnMutex == rpc = "handle" /\ IsResponse(rmsg) /\ holder # NOBODY

\* the peer is blocked in a write to its stdout: the pipe is full
PeerBlockedOnStdout == peerTodo # <<>> /\ StdoutFull

\* C22 (deadlock freedom with bounded pipes): no state is reached in which a
\* producer is blocked in the write of a request while holding the mutex, the
\* reader thread is blocked waiting for that mutex and the peer is blocked
\* writing to its full stdout, a state no thread leaves and in which the
\* send_request that was started never returns.
NoPipeDeadlock ==
    ~ \E p \in Producers :
          /\ ProducerBlockedInWrite(p)
          /\ pframe[p].id # Missing
          /\ ReaderBlockedOnMutex
          /\ PeerBlockedOnStdout

\* the values of the frames the peer wrote with the frame writer, in order
FramedValues ==
    LET framed == SelectSeq(written, LAMBDA w : w.framed)
    IN  [i \in 1..Len(framed) |-> framed[i].value]

\* the values read_message returned, in order
OkValues ==
    LET oks == SelectSeq(results, LAMBDA r : r.ok)
    IN  [i \in 1..Len(oks) |-> oks[i].value]

\* the elements of a are among those of b, in the same order
RECURSIVE IsSubsequence(_, _)
IsSubsequence(a, b) ==
    IF a = <<>> THEN TRUE
    ELSE IF b = <<>> THEN FALSE
    ELSE IF Head(a) = Head(b) THEN IsSubsequence(Tail(a), Tail(b))
    ELSE IsSubsequence(a, Tail(b))

\* the errors of a header line and of a missing Content-Length
HeaderErrorKinds == {"Unknown", "ParseInt", "Encoding"}

\* the first read_message call that failed, failed on a header
FailedOnHeader ==
    \E i \in 1..Len(results) :
        /\ ~results[i].ok
        /\ results[i].kind \in HeaderErrorKinds
        /\ \A j \in 1..(i - 1) : results[j].ok

\* C23 (resynchronisation after a bad frame): once read_message has failed on
\* a header line or on a missing Content-Length and the reader loop has read
\* the stream to its end, every well-formed frame of the stream has been
\* returned by a read_message call, unchanged and in order: none is lost or
\* misparsed because of the bad frame before it.
ResynchronisesAfterBadFrame ==
    (AtEndOfStream /\ lastEmpty /\ FailedOnHeader)
        => IsSubsequence(FramedValues, OkValues)

\* a thread has failed inside the critical section: a producer in the write
\* of its frame, or the reader thread on the id of a response
FailedInCriticalSection ==
    \/ \E p \in Producers : ppc[p] = "panicked" /\ pframe[p] # NoFrame
    \/ rpc = "panicked" /\ rfail \in {"bad_id", "unknown_id"}

\* C24 (a failure inside the critical section disables the engine): a thread
\* that fails under the mutex (the reader on a missing or un-coercible id or
\* on an id that is not pending, a producer on a failed write or flush) stops
\* there, and the mutex is left poisoned; from then on every send_request and
\* send_notification call panics at its lock, nothing more reaches the wire,
\* next_id and the pending table stay as they are and no callback is invoked.
FailureDisablesEngine ==
    [][/\ FailedInCriticalSection' => (poisoned' /\ holder' = NOBODY)
       /\ FailedInCriticalSection =>
             /\ FailedInCriticalSection'
             /\ <<wire', next_id', pending', calls'>> = <<wire, next_id, pending, calls>>
             /\ \A p \in Producers :
                   ppc'[p] # ppc[p] => (ppc[p] = "idle" /\ ppc'[p] = "panicked")
             /\ rpc' \notin {"callback", "deadlocked"}]_vars

\* the reader thread died on a response whose id is not pending while request
\* 1 was in flight; after that a producer called send_request or
\* send_notification and panicked at the lock: next_id is still 2, the wire
\* holds the one frame, the entry is still pending, nothing was called
FailureDisablesEngineWitness ==
    /\ rpc = "panicked"
    /\ rfail = "unknown_id"
    /\ \E p \in Producers : ppc[p] = "panicked" /\ pframe[p] = NoFrame
    /\ next_id = 2
    /\ DOMAIN pending = {1}
    /\ Len(wire) = 2
    /\ calls = <<>>

====
